---- MODULE Spec2Model ----
(***************************************************************************)
(* Model of client/offchain/src/api/timer.rs: the TimerApi handle and the  *)
(* TimerWorker future that share one request channel.                      *)
(*                                                                         *)
(* Time is counted in milliseconds.  One Poll step is one whole call of    *)
(* TimerWorker::poll; the clock is read once per call (the later reads of  *)
(* the same call, inside timestamp_from_now, see the same millisecond).    *)
(* The futures_timer Delay is an external collaborator: it has an expiry   *)
(* instant, a "fired" bit that its timer thread sets once the instant has  *)
(* passed, and it holds the task's waker from the last poll that returned  *)
(* Pending.                                                                *)
(***************************************************************************)
EXTENDS Integers, Sequences, FiniteSets, TLC

\* ------------------------------------------------------------------ bounds
MaxTime == 2
MaxTimers == 3
MaxDuration == 3
LiveTimers == 2
FairTimers == 3
FairTime == 3

Durations == 0..MaxDuration

VARIABLES
    now,          \* the clock, timestamp::now()
    next_id,      \* TimerApi::next_id
    api,          \* "alive" | "dropped" | "panicked"
    from_api,     \* the request channel: buffered (id, timestamp) messages
    worker,       \* "running" | "done" (poll returned Ready) | "dropped"
    woken,        \* the host has been asked to poll the worker's task
    delay,        \* TimerWorker::delay
    ids,          \* TimerWorker::ids, the binary heap as its backing array
    sink_open,    \* the receiving end of ready_ids is alive
    ready_ids,    \* the ids delivered into the announcement sink, in order
    issued,       \* history: the ids returned by start_timer, in call order
    popped,       \* history: every entry popped by poll, with the time read
    observed_min, \* history: queue minimum at the last arm/reset of delay
    cyc           \* history: what the last step did, if it was a poll

vars == <<now, next_id, api, from_api, worker, woken, delay, ids, sink_open,
          ready_ids, issued, popped, observed_min, cyc>>

\* ------------------------------------------------------- helper functions
Max(a, b) == IF a >= b THEN a ELSE b

Range(s) == {s[i] : i \in 1..Len(s)}

\* Timestamp::diff, a saturating difference
diff(self, other) == Max(0, self - other)

\* Timestamp::add
add(t, duration) == t + duration

\* timestamp::timestamp_from_now read at clock value t
timestamp_from_now(timestamp, t) == diff(timestamp, t)

\* --------------------------------------------- TimerIdWithTimestamp order
eq(self, other) == self.key = other.key

cmp(self, other) ==
    IF self.key < other.key THEN "Less"
    ELSE IF self.key = other.key THEN "Equal" ELSE "Greater"

\* Reverse<TimerIdWithTimestamp>: the comparison with the sides exchanged
ReverseLeUnreversed(a, b) == cmp(a, b) # "Greater"

ReverseLe(a, b) == cmp(b, a) # "Greater"
ReverseGt(a, b) == cmp(b, a) = "Greater"

\* ------------------------------------------------------------- BinaryHeap
Swap(h, i, j) == [h EXCEPT ![i] = h[j], ![j] = h[i]]

RECURSIVE sift_up(_, _, _)
sift_up(h, start, pos) ==
    IF pos > start /\ ~ReverseLe(h[pos], h[pos \div 2])
    THEN sift_up(Swap(h, pos, pos \div 2), start, pos \div 2)
    ELSE h

RECURSIVE sift_down_to_bottom(_, _, _)
sift_down_to_bottom(h, start, pos) ==
    LET end == Len(h)
        left == 2 * pos
        right == left + 1
        child == IF right <= end /\ ~ReverseGt(h[left], h[right])
                 THEN right ELSE left
    IN IF left <= end
       THEN sift_down_to_bottom(Swap(h, pos, child), start, child)
       ELSE sift_up(h, start, pos)

\* BinaryHeap::push
HeapPushUnlessEqual(h, item) ==
    IF \E i \in 1..Len(h) : eq(h[i], item) THEN h
    ELSE sift_up(Append(h, item), 1, Len(h) + 1)

HeapPush(h, item) == sift_up(Append(h, item), 1, Len(h) + 1)

\* BinaryHeap::peek
HeapPeek(h) == h[1]

\* BinaryHeap::pop, the heap that is left (the item returned is HeapPeek)
HeapPop(h) ==
    IF Len(h) = 1 THEN <<>>
    ELSE sift_down_to_bottom([i \in 1..(Len(h) - 1) |->
                                 IF i = 1 THEN h[Len(h)] ELSE h[i]], 1, 1)

HeapIds(h) == {h[i].id : i \in 1..Len(h)}
HeapKeys(h) == {h[i].key : i \in 1..Len(h)}
MinKey(h) == CHOOSE k \in HeapKeys(h) : \A m \in HeapKeys(h) : k <= m

\* ------------------------------------------------------------------ state
NoDelay == [present |-> FALSE, earliest |-> 0, at |-> 0,
            fired |-> FALSE, registered |-> FALSE]

NoCycle == [turn |-> 0, ret |-> "none", cleared |-> FALSE, armed |-> FALSE,
            ingested |-> FALSE, due |-> FALSE, reset |-> FALSE, wake |-> FALSE,
            req |-> 0, req_id |-> 0, before |-> 0]

Init ==
    /\ now = 0
    /\ next_id = 0
    /\ api = "alive"
    /\ from_api = <<>>
    /\ worker = "running"
    /\ woken = TRUE
    /\ delay = NoDelay
    /\ ids = <<>>
    /\ sink_open = TRUE
    /\ ready_ids = <<>>
    /\ issued = <<>>
    /\ popped = <<>>
    /\ observed_min = 0
    /\ cyc = NoCycle

\* ---------------------------------------------------------------- TimerApi
\* TimerId(self.next_id.0 + 1)
NextIdStuck(id) == id

NextId(id) == id + 1

\* timestamp::now().add(duration)
DeadlineIgnoringNow(t, duration) == add(0, duration)

Deadline(t, duration) == add(t, duration)

\* unbounded_send(..).map(|_| id).expect(..): what becomes of the handle
ExpectIgnoringError(result) == "alive"

Expect(result) == IF result = "Err" THEN "panicked" ELSE "alive"

\* start_timer while the receiving end of the channel exists
StartTimer(duration) ==
    /\ api = "alive"
    /\ worker # "dropped"
    /\ next_id < MaxTimers
    /\ LET id == next_id
           timestamp == Deadline(now, duration)
       IN /\ next_id' = NextId(next_id)
          /\ from_api' = Append(from_api, [id |-> id, key |-> timestamp])
          /\ issued' = Append(issued, id)
    /\ woken' = TRUE
    /\ cyc' = cyc
    /\ UNCHANGED <<now, api, worker, delay, ids, sink_open, ready_ids,
                   popped, observed_min>>

\* start_timer after the worker was dropped: unbounded_send fails, expect panics
StartTimerPanic(duration) ==
    /\ api = "alive"
    /\ worker = "dropped"
    /\ next_id < MaxTimers
    /\ next_id' = NextId(next_id)
    /\ api' = Expect("Err")
    /\ cyc' = cyc
    /\ UNCHANGED <<now, from_api, worker, woken, delay, ids, sink_open,
                   ready_ids, issued, popped, observed_min>>

\* the TimerApi (the only sender) is dropped: the channel is closed
DropApi ==
    /\ api = "alive"
    /\ api' = "dropped"
    /\ woken' = (woken \/ worker = "running")
    /\ cyc' = cyc
    /\ UNCHANGED <<now, next_id, from_api, worker, delay, ids, sink_open,
                   ready_ids, issued, popped, observed_min>>

\* ------------------------------------------------------------ environment
Tick ==
    /\ now < MaxTime
    /\ now' = now + 1
    /\ cyc' = cyc
    /\ UNCHANGED <<next_id, api, from_api, worker, woken, delay, ids,
                   sink_open, ready_ids, issued, popped, observed_min>>

\* the timer thread of futures_timer notices that the Delay has run out
DelayFire ==
    /\ worker = "running"
    /\ delay.present
    /\ ~delay.fired
    /\ now >= delay.at
    /\ delay' = [delay EXCEPT !.fired = TRUE, !.registered = FALSE]
    /\ woken' = (woken \/ delay.registered)
    /\ cyc' = cyc
    /\ UNCHANGED <<now, next_id, api, from_api, worker, ids, sink_open,
                   ready_ids, issued, popped, observed_min>>

\* the consumer of the announcement sink goes away
CloseSink ==
    /\ sink_open
    /\ sink_open' = FALSE
    /\ cyc' = cyc
    /\ UNCHANGED <<now, next_id, api, from_api, worker, woken, delay, ids,
                   ready_ids, issued, popped, observed_min>>

\* the host drops the worker future (and with it the channel's receiver)
DropWorker ==
    /\ worker # "dropped"
    /\ worker' = "dropped"
    /\ woken' = FALSE
    /\ cyc' = cyc
    /\ UNCHANGED <<now, next_id, api, from_api, delay, ids, sink_open,
                   ready_ids, issued, popped, observed_min>>

\* ------------------------------------------------------- TimerWorker::poll
\* phase 1: poll the Delay; take it when it is ready, else leave the waker
PollDelay(d) ==
    IF ~d.present THEN d
    ELSE IF d.fired THEN NoDelay
    ELSE [d EXCEPT !.registered = TRUE]

\* phase 2: the loop condition `x.0.key <= now`
IsElapsedEarly(key, t) == key <= t + 1

IsElapsed(key, t) == key <= t

\* phase 2: the while loop; heap is what stays, out is what was popped
DrainOnce(h, t, out) ==
    IF Len(h) > 0 /\ IsElapsed(HeapPeek(h).key, t)
    THEN [heap |-> HeapPop(h), out |-> Append(out, HeapPeek(h))]
    ELSE [heap |-> h, out |-> out]

RECURSIVE Drain(_, _, _)
Drain(h, t, out) ==
    IF Len(h) > 0 /\ IsElapsed(HeapPeek(h).key, t)
    THEN Drain(HeapPop(h), t, Append(out, HeapPeek(h)))
    ELSE [heap |-> h, out |-> out]

\* phase 2: `let _ = this.ready_ids.unbounded_send(..)`, the error is dropped
AfterSendFailing(open, out, ret) ==
    IF ~open /\ Len(out) > 0 THEN "Ready" ELSE ret

AfterSend(open, out, ret) == ret

\* phase 3: Some((*timestamp, Delay::new(duration)))
NewDelay(timestamp, t) ==
    [present |-> TRUE, earliest |-> timestamp,
     at |-> t + timestamp_from_now(timestamp, t),
     fired |-> FALSE, registered |-> FALSE]

\* phase 3: the match guard (Some(..), None)
ShouldArmAlways(h, d) == Len(h) > 0

ShouldArm(h, d) == Len(h) > 0 /\ ~d.present

\* phase 4: Stream::poll_next on the receiver
poll_next(a, ch) ==
    IF Len(ch) > 0 THEN "Some"
    ELSE IF a # "alive" THEN "None"
    ELSE "Pending"

\* phase 4: the guard `earliest.diff(&timestamp).millis() > 0`
ShouldResetReversed(d, timestamp) == d.present /\ diff(timestamp, d.earliest) > 0

ShouldReset(d, timestamp) == d.present /\ diff(d.earliest, timestamp) > 0

\* phase 4: delay.reset(duration); the recorded timestamp is left as it is
ResetDelay(d, timestamp, t) ==
    [d EXCEPT !.at = t + timestamp_from_now(timestamp, t), !.fired = FALSE]

\* phase 4: the value poll returns for each outcome of poll_next
PollResultFlushing(next, h) ==
    IF next = "None" /\ Len(h) = 0 THEN "Ready" ELSE "Pending"

PollResultEager(next, h) == IF next = "Some" THEN "Pending" ELSE "Ready"

PollResult(next, h) == IF next = "None" THEN "Ready" ELSE "Pending"

\* cx.waker().wake_by_ref(): after a fresh arm and after every ingest
WakeOnArmOnly(arm, next) == arm

WakeOnIngestOnly(arm, next) == next = "Some"

WakeRequested(arm, next) == arm \/ next = "Some"

Poll ==
    /\ worker = "running"
    /\ woken
    /\ LET d1 == PollDelay(delay)
           dr == Drain(ids, now, <<>>)
           h2 == dr.heap
           arm == ShouldArm(h2, d1)
           d3 == IF arm THEN NewDelay(HeapPeek(h2).key, now) ELSE d1
           next == poll_next(api, from_api)
           msg == Head(from_api)
           rst == next = "Some" /\ ShouldReset(d3, msg.key)
           h4 == IF next = "Some" THEN HeapPush(h2, msg) ELSE h2
           d4 == IF rst THEN ResetDelay(d3, msg.key, now) ELSE d3
           ret == AfterSend(sink_open, dr.out, PollResult(next, h4))
           wake == WakeRequested(arm, next)
       IN /\ delay' = d4
          /\ ids' = h4
          /\ from_api' = IF next = "Some" THEN Tail(from_api) ELSE from_api
          /\ ready_ids' = IF sink_open
                          THEN ready_ids \o [i \in 1..Len(dr.out) |-> dr.out[i].id]
                          ELSE ready_ids
          /\ popped' = popped \o [i \in 1..Len(dr.out) |->
                                    [id |-> dr.out[i].id, key |-> dr.out[i].key,
                                     at |-> now, sent |-> sink_open]]
          /\ worker' = IF ret = "Ready" THEN "done" ELSE "running"
          /\ woken' = (ret = "Pending" /\ wake)
          /\ observed_min' = IF rst THEN MinKey(h4)
                             ELSE IF arm THEN MinKey(h2)
                             ELSE IF ~d4.present THEN 0
                             ELSE observed_min
          /\ cyc' = [turn |-> 1 - cyc.turn,
                     ret |-> ret,
                     cleared |-> delay.present /\ ~d1.present,
                     armed |-> arm,
                     ingested |-> next = "Some",
                     due |-> next = "Some" /\ msg.key <= now,
                     reset |-> rst,
                     wake |-> wake,
                     req |-> IF next = "Some" THEN msg.key ELSE 0,
                     req_id |-> IF next = "Some" THEN msg.id ELSE 0,
                     before |-> IF rst THEN d3.at ELSE 0]
    /\ UNCHANGED <<now, next_id, api, sink_open, issued>>

\* ---------------------------------------------------------- specification
Next ==
    \/ \E duration \in Durations : StartTimer(duration)
    \/ \E duration \in Durations : StartTimerPanic(duration)
    \/ DropApi
    \/ Tick
    \/ DelayFire
    \/ CloseSink
    \/ DropWorker
    \/ Poll

Spec == Init /\ [][Next]_vars

\* the worker while its host keeps it and polls it whenever it was woken
StartTimerDriven(duration) ==
    /\ next_id < LiveTimers
    /\ StartTimer(duration)

NextDriven ==
    \/ \E duration \in Durations : StartTimerDriven(duration)
    \/ DropApi
    \/ Tick
    \/ DelayFire
    \/ CloseSink
    \/ Poll

LiveSpec == Init /\ [][NextDriven]_vars /\ WF_vars(Poll)

\* the worker with both channels kept open, a clock that keeps advancing up
\* to FairTime, sleeps that complete and a host that polls after every wake
StartTimerFair(duration) ==
    /\ next_id < FairTimers
    /\ add(now, duration) <= FairTime
    /\ StartTimer(duration)

TickFair ==
    /\ now < FairTime
    /\ now' = now + 1
    /\ UNCHANGED <<next_id, api, from_api, worker, woken, delay, ids,
                   sink_open, ready_ids, issued, popped, observed_min, cyc>>

NextFair ==
    \/ \E duration \in Durations : StartTimerFair(duration)
    \/ TickFair
    \/ DelayFire
    \/ Poll

FairSpec ==
    /\ Init
    /\ [][NextFair]_vars
    /\ WF_vars(Poll)
    /\ WF_vars(TickFair)
    /\ WF_vars(DelayFire)

TypeOK ==
    /\ now \in 0..MaxTime
    /\ next_id \in 0..MaxTimers
    /\ api \in {"alive", "dropped", "panicked"}
    /\ worker \in {"running", "done", "dropped"}
    /\ woken \in BOOLEAN
    /\ sink_open \in BOOLEAN
    /\ Len(ids) <= MaxTimers
    /\ Len(from_api) <= MaxTimers

\* ------------------------------------------------------------- properties
\* a step that is one call of poll
PollStep == cyc'.turn # cyc.turn

\* the entries popped by the step, in the order they were pushed to the sink
Fresh == SubSeq(popped', Len(popped) + 1, Len(popped'))

PoppedIds == {popped[i].id : i \in 1..Len(popped)}
ChannelIds == {from_api[i].id : i \in 1..Len(from_api)}

\* C1: an id reaches the sink only through a pop of poll, and every pop
\* happens in a call whose clock reading is at or after the entry's deadline.
C1_NeverBeforeDeadline ==
    /\ \A i \in 1..Len(popped) :
          popped[i].key <= popped[i].at /\ popped[i].at <= now
    /\ ready_ids = [i \in 1..Len(ready_ids) |->
                      SelectSeq(popped, LAMBDA e : e.sent)[i].id]
    /\ Len(ready_ids) = Len(SelectSeq(popped, LAMBDA e : e.sent))
    /\ \A i \in 1..Len(ids) : \A j \in 1..Len(popped) : ids[i].id # popped[j].id

C1_Witness ==
    \E i \in 1..Len(popped) :
        /\ popped[i].sent
        /\ popped[i].key > 0
        /\ popped[i].at = popped[i].key
        /\ popped[i].id \in Range(ready_ids)

\* C2 as stated: of two announced timers the one with the strictly earlier
\* deadline is never pushed after the other.
C2_DeadlineOrderAlways ==
    \A i, j \in 1..Len(popped) :
        (i < j /\ popped[i].sent /\ popped[j].sent)
            => popped[i].key <= popped[j].key

\* C2 amended: of two timers that are both in the queue when a call of poll
\* starts, the later deadline is pushed in that call only after the earlier.
C2_QueueOrder ==
    [][PollStep =>
        \A a, b \in 1..Len(ids) :
            (ids[a].key < ids[b].key
               /\ \E j \in 1..Len(Fresh) : Fresh[j].id = ids[b].id)
            => \E i, j \in 1..Len(Fresh) :
                  /\ i < j
                  /\ Fresh[i].id = ids[a].id
                  /\ Fresh[j].id = ids[b].id]_vars

C2_Witness ==
    /\ Len(ready_ids) = 3
    /\ ready_ids = <<1, 0, 2>>
    /\ \A i \in 1..2 : popped[i].key < popped[i + 1].key
    /\ popped[1].at = popped[2].at

\* C5: no id is popped twice, and a call of poll pops every queued entry whose
\* deadline has been reached, entries with equal deadlines included.
C5_EachOnce ==
    /\ [](\A i, j \in 1..Len(popped) : popped[i].id = popped[j].id => i = j)
    /\ [](\A i, j \in 1..Len(ready_ids) : ready_ids[i] = ready_ids[j] => i = j)
    /\ [][PollStep =>
            /\ {Fresh[i].id : i \in 1..Len(Fresh)}
                   = {ids[i].id : i \in {k \in 1..Len(ids) : ids[k].key <= now}}
            /\ Len(Fresh)
                   = Cardinality({k \in 1..Len(ids) : ids[k].key <= now})]_vars

C5_Witness ==
    \E i, j \in 1..Len(popped) :
        /\ i < j
        /\ popped[i].key = popped[j].key
        /\ popped[i].at = popped[j].at
        /\ popped[i].id # popped[j].id
        /\ popped[i].sent /\ popped[j].sent

\* C6: the k-th start_timer call returns TimerId(k - 1), and the requests in
\* the channel carry strictly increasing ids.
C6_IdsIncrease ==
    /\ \A k \in 1..Len(issued) : issued[k] = k - 1
    /\ \A i, j \in 1..Len(from_api) : i < j => from_api[i].id < from_api[j].id
    /\ \A i \in 1..Len(from_api) : from_api[i].id \in Range(issued)

C6_Witness ==
    /\ Len(issued) >= 3
    /\ Len(from_api) >= 2

\* C3 as stated: when poll ingests a deadline dB while the sleep is recorded
\* as armed for a later deadline dA, the sleep afterwards runs out no later
\* than dB (at once when dB is already past) and, if it had not run out yet,
\* no later than it would have run out without the insertion.
C3_InsertShortensWait ==
    [][(PollStep /\ cyc'.reset) =>
          /\ delay'.at <= Max(cyc'.req, now)
          /\ cyc'.before > now => delay'.at <= cyc'.before]_vars

\* C4 as stated: while the sleep is present, the deadline recorded with it is
\* the minimum deadline the queue had at the last arm or reset of the sleep.
C4_RecordedIsObservedMin ==
    delay.present => delay.earliest = observed_min

\* C7: once the TimerApi is dropped, the driven worker returns Ready, also
\* with entries left in the queue, and nothing is pushed after that.
C7_ClosedChannelTerminates ==
    /\ (api = "dropped") ~> (worker = "done")
    /\ [][worker = "done" =>
            (worker' = "done" /\ ready_ids' = ready_ids /\ popped' = popped
               /\ ids' = ids)]_vars

C7_Witness ==
    /\ worker = "done"
    /\ Len(ids) > 0
    /\ \A i \in 1..Len(ids) : ids[i].key > now /\ ids[i].id \notin Range(ready_ids)
    /\ sink_open

\* C8: poll returns Ready exactly in a call that finds the channel closed and
\* empty; every other call returns Pending.
C8_ReadyOnlyWhenClosed ==
    [][PollStep =>
          /\ cyc'.ret \in {"Ready", "Pending"}
          /\ (cyc'.ret = "Ready") <=> (api = "dropped" /\ from_api = <<>>)
          /\ (worker' = "done") <=> (cyc'.ret = "Ready")]_vars

C8_Witness ==
    /\ worker = "running"
    /\ cyc.ret = "Pending"
    /\ cyc.cleared
    /\ ~cyc.ingested
    /\ Len(ids) = 0
    /\ ~sink_open
    /\ \E i \in 1..Len(popped) : ~popped[i].sent

\* C9 as stated: while the worker runs, the ids in the queue are exactly the
\* issued ids that were not announced yet.
C9_QueueIsIssuedNotAnnounced ==
    worker = "running" => HeapIds(ids) = Range(issued) \ PoppedIds

\* C9 amended: while the worker runs, the ids in the queue together with the
\* ids of the requests still buffered in the channel are exactly the issued
\* ids that were not announced yet, each of them held once.
C9_QueueAndChannel ==
    worker = "running" =>
        /\ HeapIds(ids) \cup ChannelIds = Range(issued) \ PoppedIds
        /\ HeapIds(ids) \cap ChannelIds = {}
        /\ Cardinality(HeapIds(ids)) = Len(ids)
        /\ Cardinality(ChannelIds) = Len(from_api)

C9_Witness ==
    /\ worker = "running"
    /\ Len(ids) > 0
    /\ Len(from_api) > 0
    /\ Len(popped) > 0

\* C10: a call of poll that ingests a deadline already reached asks for a
\* self-wake and returns Pending, and the next call of poll pops that entry.
C10_DueOnNextCycle ==
    /\ [][(PollStep /\ cyc'.due) =>
            (woken' /\ cyc'.wake /\ cyc'.ret = "Pending")]_vars
    /\ [][(PollStep /\ cyc.due) =>
            \E j \in 1..Len(Fresh) :
                /\ Fresh[j].id = cyc.req_id
                /\ Fresh[j].sent = sink_open]_vars

C10_Witness ==
    /\ now = 0
    /\ Len(popped) > 0
    /\ popped[1].key = 0
    /\ popped[1].at = 0
    /\ popped[1].sent
    /\ ready_ids[1] = popped[1].id
    /\ ~cyc.cleared
    /\ ~delay.present

\* C11: a start_timer call made after the worker was dropped panics: it
\* returns no id, sends nothing, and the handle does nothing afterwards.
C11_SendAfterWorkerGonePanics ==
    /\ [][(worker = "dropped" /\ next_id' # next_id) =>
            (api' = "panicked" /\ issued' = issued /\ from_api' = from_api)]_vars
    /\ [][api = "panicked" =>
            (api' = "panicked" /\ next_id' = next_id /\ issued' = issued
               /\ from_api' = from_api)]_vars

C11_Witness ==
    /\ api = "panicked"
    /\ worker = "dropped"
    /\ next_id = Len(issued) + 1
    /\ Len(issued) > 0

\* C12: with the sink closed a call of poll still pops every due entry, puts
\* nothing into the sink, keeps none of the popped entries, returns Ready only
\* for a closed and empty channel, and ingests and arms as with an open sink.
C12_ClosedSinkAbsorbed ==
    [][(PollStep /\ ~sink_open) =>
          /\ ready_ids' = ready_ids
          /\ {Fresh[i].id : i \in 1..Len(Fresh)}
                 = {ids[i].id : i \in {k \in 1..Len(ids) : ids[k].key <= now}}
          /\ \A i \in 1..Len(Fresh) : ~Fresh[i].sent /\ Fresh[i].id \notin HeapIds(ids')
          /\ (cyc'.ret = "Ready") <=> (api = "dropped" /\ from_api = <<>>)
          /\ worker' = IF cyc'.ret = "Ready" THEN "done" ELSE "running"
          /\ from_api # <<>> =>
                (from_api' = Tail(from_api) /\ Head(from_api).id \in HeapIds(ids'))
          /\ ((\E i \in 1..Len(ids) : ids[i].key > now) \/ from_api # <<>>)
                => (delay'.present \/ cyc'.wake)]_vars

C12_Witness ==
    /\ ~sink_open
    /\ worker = "running"
    /\ \E i \in 1..Len(popped) : ~popped[i].sent /\ popped[i].id \notin Range(ready_ids)
    /\ cyc.ingested
    /\ delay.present
    /\ Len(ids) > 0

\* C13: a successful start_timer call appends the one request (id, now +
\* duration) to the channel, returns that id, is enabled in every state of a
\* live worker, and leaves the queue, the sleep, the sink and the clock alone.
C13_StartTimerFrame ==
    /\ [][(next_id' # next_id /\ api' = "alive") =>
            /\ next_id' = next_id + 1
            /\ issued' = Append(issued, next_id)
            /\ \E duration \in Durations :
                  from_api' = Append(from_api,
                                     [id |-> next_id, key |-> now + duration])
            /\ UNCHANGED <<ids, delay, ready_ids, sink_open, now, worker,
                           popped, api>>]_vars
    /\ []((api = "alive" /\ worker # "dropped" /\ next_id < MaxTimers)
            => \A duration \in Durations : ENABLED StartTimer(duration))

C13_Witness ==
    /\ now > 0
    /\ Len(from_api) > 0
    /\ from_api[Len(from_api)].key > now
    /\ from_api[Len(from_api)].id = issued[Len(issued)]
    /\ Len(ids) > 0
    /\ delay.present
    /\ worker = "running"

\* what a call of poll finds: the queue positions that are not due, their
\* least deadline, and whether the sleep survives the poll of phase 1
Kept == {k \in 1..Len(ids) : ids[k].key > now}
KeptMin == CHOOSE m \in {ids[k].key : k \in Kept} :
               \A k \in Kept : m <= ids[k].key
SleepStays == delay.present /\ ~delay.fired

\* C14: after a call of poll that returns Pending with a non-empty queue,
\* either a self-wake was requested or the sleep is present and holds the
\* task's waker from this call, not armed or reset since; every ingest, reset
\* and fresh arm requests a self-wake, which wakes the task.
C14_RepollGuaranteed ==
    /\ [][(PollStep /\ cyc'.ret = "Pending" /\ Len(ids') > 0) =>
            \/ (cyc'.wake /\ woken')
            \/ (delay'.present /\ delay'.registered
                  /\ ~cyc'.armed /\ ~cyc'.reset)]_vars
    /\ [][(PollStep /\ (cyc'.ingested \/ cyc'.reset \/ cyc'.armed)) =>
            (cyc'.wake /\ (cyc'.ret = "Pending" => woken'))]_vars

C14_Witness ==
    /\ worker = "running"
    /\ cyc.ret = "Pending"
    /\ Len(ids) > 0
    /\ ~cyc.wake
    /\ ~woken
    /\ delay.present
    /\ delay.registered
    /\ ~delay.fired

\* C15 as stated: after a call of poll that returns Pending, no request that
\* was buffered when the call began is left in the channel.
C15_IngestsAllBuffered ==
    [][(PollStep /\ cyc'.ret = "Pending") => from_api' = <<>>]_vars

\* C15 amended: a call of poll ingests the oldest buffered request and no
\* other; it then returns Pending with a self-wake, so the requests left in
\* the channel are ingested one per call by the calls that follow.
C15_IngestsOldestAndRepolls ==
    [][PollStep =>
          IF from_api # <<>>
          THEN /\ from_api' = Tail(from_api)
               /\ HeapIds(ids') = {ids[k].id : k \in Kept} \cup {Head(from_api).id}
               /\ cyc'.ret = "Pending"
               /\ woken'
          ELSE /\ from_api' = from_api
               /\ HeapIds(ids') = {ids[k].id : k \in Kept}]_vars

C15_Witness ==
    /\ worker = "running"
    /\ cyc.ingested
    /\ cyc.ret = "Pending"
    /\ Len(from_api) > 0
    /\ from_api[1].id = cyc.req_id + 1
    /\ cyc.req_id \in HeapIds(ids)
    /\ woken

\* C16: the ingest of a call of poll resets the sleep exactly when a sleep is
\* present and the ingested deadline is strictly earlier than the deadline
\* recorded with it; the reset makes it run out max(0, deadline - now) from
\* now; any other ingest leaves the sleep as it was and only adds the entry.
C16_ResetIffStrictlyEarlier ==
    [][(PollStep /\ from_api # <<>>) =>
          LET msg == Head(from_api)
              armedNow == Kept # {} /\ ~SleepStays
              present3 == SleepStays \/ armedNow
              earliest3 == IF SleepStays THEN delay.earliest ELSE KeptMin
              at3 == IF SleepStays THEN delay.at
                     ELSE now + Max(0, KeptMin - now)
              earlier == present3 /\ msg.key < earliest3
          IN /\ cyc'.reset <=> earlier
             /\ earlier => /\ delay'.present
                           /\ delay'.at = now + Max(0, msg.key - now)
                           /\ ~delay'.fired
             /\ ~earlier => /\ delay'.present = present3
                            /\ present3 => /\ delay'.at = at3
                                           /\ delay'.earliest = earliest3
                                           /\ ~delay'.fired
             /\ Len(ids') = Cardinality(Kept) + 1
             /\ \E i \in 1..Len(ids') : ids'[i] = msg]_vars

C16_Witness ==
    /\ cyc.ingested
    /\ ~cyc.reset
    /\ delay.present
    /\ \E i \in 1..Len(ids) :
          /\ ids[i].id = cyc.req_id
          /\ ids[i].key = delay.earliest
    /\ \E i \in 1..Len(ids) : ids[i].id # cyc.req_id /\ ids[i].key = delay.earliest
    /\ ~cyc.armed

\* C17: phase 3 of a call of poll creates a sleep exactly when entries stay
\* in the queue after the drain and no sleep is present; it is recorded for
\* the least deadline left, runs out max(0, that deadline - now) from now and
\* comes with a self-wake; a present sleep is never replaced, and a completed
\* sleep is cleared without taking any entry that is not due from the queue.
C17_ArmOnlyWhenNoSleep ==
    [][PollStep =>
          /\ cyc'.armed <=> (Kept # {} /\ ~SleepStays)
          /\ cyc'.armed =>
                /\ delay'.present
                /\ delay'.earliest = KeptMin
                /\ cyc'.wake
                /\ ~cyc'.reset =>
                      /\ delay'.at = now + Max(0, KeptMin - now)
                      /\ ~delay'.fired
                      /\ ~delay'.registered
          /\ ~cyc'.armed =>
                /\ delay'.present = SleepStays
                /\ SleepStays =>
                      /\ delay'.earliest = delay.earliest
                      /\ ~cyc'.reset => delay'.at = delay.at
          /\ cyc'.cleared <=> (delay.present /\ delay.fired)
          /\ {ids[k].id : k \in Kept} \subseteq HeapIds(ids')]_vars

C17_Witness ==
    /\ cyc.cleared
    /\ cyc.armed
    /\ ~cyc.ingested
    /\ delay.present
    /\ Len(ids) > 0
    /\ delay.earliest = MinKey(ids)
    /\ delay.at = delay.earliest
    /\ Len(popped) > 0

\* C18 as stated: while the worker is suspended (running, not woken) with a
\* non-empty queue and a sleep, the sleep runs out no later than the least
\* deadline in the queue.
C18_SleepNotPastQueueMin ==
    (worker = "running" /\ ~woken /\ cyc.ret = "Pending"
        /\ Len(ids) > 0 /\ delay.present)
      => delay.at <= MinKey(ids)

\* C19: with both channels open, an advancing clock, completing sleeps and a
\* host that polls after every wake, every issued id is eventually delivered
\* to the sink, and no id is delivered twice.
C19_EveryRequestAnnounced ==
    /\ \A id \in 0..(FairTimers - 1) :
          (id \in Range(issued)) ~> (id \in Range(ready_ids))
    /\ [](\A i, j \in 1..Len(ready_ids) : ready_ids[i] = ready_ids[j] => i = j)
    /\ [](Range(ready_ids) \subseteq Range(issued))

C19_Witness ==
    /\ Len(issued) >= 3
    /\ Range(ready_ids) = Range(issued)
    /\ Len(ready_ids) = Len(issued)
    /\ \E i \in 1..Len(popped) : popped[i].key > 0 /\ popped[i].at > popped[i].key
    /\ from_api = <<>>
    /\ ids = <<>>

====
